---- MODULE Spec2Model ----
(***************************************************************************)
(* Model of the BODMA / CODMA / PRODMA tool server (src/server.py) and of  *)
(* the agent loop that drives it (src/agent.py).                           *)
(*                                                                         *)
(* Three specifications share one set of variables:                        *)
(*   SpecServer - the server alone, serving tools/list and tools/call      *)
(*                requests of an arbitrary client while the clock and the  *)
(*                FAKE_NOW_HOUR override change;                           *)
(*   Spec       - one invocation of agent(prompt) against that server,     *)
(*                with the wall clock advancing between its steps;         *)
(*   LiveSpec   - Spec with the steps of agent() taken fairly.             *)
(***************************************************************************)
EXTENDS Integers, Sequences, FiniteSets, TLC

VARIABLES
    fake,           \* os.environ["FAKE_NOW_HOUR"]: [set, val], val a digit string
    wall,           \* datetime.now().hour
    registry,       \* mcp._tool_manager: the registered tools, in registration order
    served,         \* SpecServer: the request the server answered last, until read
    pc,             \* agent: position in agent()
    declarations,   \* agent: the catalog fetched by get_mcp_tools
    contents,       \* agent: the conversation history
    tool_calls,     \* agent: the function calls of the last model turn
    result_parts,   \* agent: the function responses collected so far
    final,          \* agent: the final answer printed
    raised,         \* agent: the exception that left agent(), if any
    nModelCalls,    \* number of generate_content calls made
    nToolCalls      \* number of session.call_tool calls made

clockVars == <<fake, wall>>
agentVars == <<pc, declarations, contents, tool_calls, result_parts, final,
               raised, nModelCalls, nToolCalls>>
vars == <<fake, wall, registry, served, pc, declarations, contents, tool_calls,
          result_parts, final, raised, nModelCalls, nToolCalls>>

----------------------------------------------------------------------------
(* Bounds of the model *)

\* tool arguments of SpecServer range over -NumLo .. NumHi
NumLo == 2
NumHi == 3
\* the model stub of Spec issues at most MaxCalls tool calls in one invocation
MaxCalls == 2

----------------------------------------------------------------------------
(* The clock: current_hour() and prodma_available() *)

HoursPerDay == 24
Hours == 0 .. (HoursPerDay - 1)

PRODMA_START_HOUR == 10
PRODMA_END_HOUR == 22

\* str(h) for an hour: the decimal digits, most significant first
DigitsOf(h) == IF h < 10 THEN <<h>> ELSE <<h \div 10, h % 10>>

\* int(s) for a string of decimal digits
RECURSIVE IntOf(_)
IntOf(s) ==
    IF Len(s) = 1 THEN s[1]
    ELSE IntOf(SubSeq(s, 1, Len(s) - 1)) * 10 + s[Len(s)]

Unset == [set |-> FALSE, val |-> <<>>]
EnvOf(s) == [set |-> TRUE, val |-> s]

\* the values FAKE_NOW_HOUR takes: unset, empty, or an hour 0..23
EnvValues == {Unset, EnvOf(<<>>)} \cup {EnvOf(DigitsOf(h)) : h \in Hours}

\* Python truthiness of os.getenv's result: None and "" are falsy, "0" is not
Truthy(f) == f.set /\ f.val # <<>>

current_hour == IF Truthy(fake) THEN IntOf(fake.val) ELSE wall

\* variant: the window closed at its end, [start, end]
prodma_available_closed == PRODMA_START_HOUR <= current_hour /\ current_hour <= PRODMA_END_HOUR
prodma_available == PRODMA_START_HOUR <= current_hour /\ current_hour < PRODMA_END_HOUR

----------------------------------------------------------------------------
(* Numbers: a float is modelled as an exact fraction <<num, den>>, den > 0 *)

Abs(x) == IF x < 0 THEN -x ELSE x

RECURSIVE GCD(_, _)
GCD(x, y) == IF y = 0 THEN x ELSE GCD(y, x % y)

Frac(n, d) ==
    LET g == GCD(Abs(n), Abs(d))
        s == IF d < 0 THEN -1 ELSE 1
    IN  <<(s * n) \div g, (s * d) \div g>>

NoValue == <<0, 0>>

RECURSIVE IntPow(_, _)
IntPow(a, n) == IF n = 0 THEN 1 ELSE a * IntPow(a, n - 1)

\* a ** b on floats with integral values: 0.0 ** negative raises
PowRaises(a, b) == a = 0 /\ b < 0
Pow(a, b) == IF b >= 0 THEN Frac(IntPow(a, b), 1) ELSE Frac(1, IntPow(a, -b))

Mul(x, y) == Frac(x[1] * y[1], x[2] * y[2])
Div(x, y) == Frac(x[1] * y[2], x[2] * y[1])
IsZero(x) == x[1] = 0

----------------------------------------------------------------------------
(* Outcomes of a tool function: a value, or the exception it raises *)

Ok(v) == [ok |-> TRUE, kind |-> "", msg |-> "", value |-> v]
Raise(k, m) == [ok |-> FALSE, kind |-> k, msg |-> m, value |-> NoValue]

ZeroDivisionError == Raise("ZeroDivisionError", "0.0 cannot be raised to a negative power")
UnavailableError == Raise("ValueError", "PRODMA only available 10:00-22:00")
BodmaDomainError == Raise("ValueError", "a*b cannot be 0 - division by zero")
CodmaDomainError == Raise("ValueError", "a^b cannot be 0 - division by zero")
UnknownToolError == Raise("ToolError", "Unknown tool")

bodma(a, b) ==
    IF a * b = 0 THEN BodmaDomainError
    ELSE IF PowRaises(a, b) THEN ZeroDivisionError
    ELSE Ok(Div(Pow(a, b), Frac(a * b, 1)))

codma(a, b) ==
    IF PowRaises(a, b) THEN ZeroDivisionError
    ELSE IF IsZero(Pow(a, b)) THEN CodmaDomainError
    ELSE Ok(Div(Frac(a * b, 1), Pow(a, b)))

\* variant: no guard at call time
prodma_unguarded(a, b) ==
    IF PowRaises(a, b) \/ PowRaises(b, a) THEN ZeroDivisionError
    ELSE Ok(Mul(Pow(a, b), Pow(b, a)))
prodma(a, b) ==
    IF ~prodma_available THEN UnavailableError
    ELSE IF PowRaises(a, b) \/ PowRaises(b, a) THEN ZeroDivisionError
    ELSE Ok(Mul(Pow(a, b), Pow(b, a)))

----------------------------------------------------------------------------
(* The registry and the two requests the server answers *)

\* the registered tools, in registration order
Registry == <<"bodma", "codma", "prodma">>
Registered == {Registry[i] : i \in 1 .. Len(Registry)}

_original_list_tools == registry

\* variant: the filter tests the start of the window only
KeepToolFromStart(t) == t # "prodma" \/ PRODMA_START_HOUR <= current_hour
KeepTool(t) == t # "prodma" \/ prodma_available

\* variant: the unwrapped listing
_dynamic_list_tools_unfiltered == _original_list_tools
_dynamic_list_tools == SelectSeq(_original_list_tools, KeepTool)

\* tools/call: look the tool up, run it, turn an exception into an error result
call_tool(name, a, b) ==
    IF \A i \in 1 .. Len(registry) : registry[i] # name THEN UnknownToolError
    ELSE IF name = "bodma" THEN bodma(a, b)
    ELSE IF name = "codma" THEN codma(a, b)
    ELSE IF name = "prodma" THEN prodma(a, b)
    ELSE UnknownToolError

\* what crosses the wire: content[0].text; the exception class does not
TextOf(o) == [isError |-> ~o.ok, text |-> o.msg, value |-> o.value]

----------------------------------------------------------------------------
(* SpecServer: the server answering one client, one request at a time *)

Nums == (0 - NumLo) .. NumHi
ToolNames == Registered \cup {"nosuch"}

Idle == [op |-> "none", name |-> "", a |-> 0, b |-> 0, tools |-> <<>>,
         outcome |-> Ok(NoValue)]

AgentIdle ==
    /\ pc = "connect"
    /\ declarations = <<>>
    /\ contents = <<>>
    /\ tool_calls = <<>>
    /\ result_parts = <<>>
    /\ final = ""
    /\ raised = ""
    /\ nModelCalls = 0
    /\ nToolCalls = 0

InitServer ==
    /\ fake \in EnvValues
    /\ wall \in Hours
    /\ registry = Registry
    /\ served = Idle
    /\ AgentIdle

\* an hour passes on the wall clock
Tick ==
    /\ wall' = (wall + 1) % HoursPerDay
    /\ UNCHANGED <<fake, registry, served, agentVars>>

\* the override is set, changed or removed in the server's environment
SetEnv ==
    /\ \E v \in EnvValues : fake' = v
    /\ UNCHANGED <<wall, registry, served, agentVars>>

\* variant: the filter removes the hidden tool from the registry itself
ServeListInPlace ==
    /\ served.op = "none"
    /\ served' = [Idle EXCEPT !.op = "tools/list", !.tools = _dynamic_list_tools]
    /\ registry' = _dynamic_list_tools
    /\ UNCHANGED <<clockVars, agentVars>>
\* the comprehension builds a new list; the registry is left as it is
ServeList ==
    /\ served.op = "none"
    /\ served' = [Idle EXCEPT !.op = "tools/list", !.tools = _dynamic_list_tools]
    /\ registry' = registry
    /\ UNCHANGED <<clockVars, agentVars>>

ServeCall ==
    /\ served.op = "none"
    /\ \E n \in ToolNames, a \in Nums, b \in Nums :
          served' = [Idle EXCEPT !.op = "tools/call", !.name = n, !.a = a, !.b = b,
                                 !.outcome = call_tool(n, a, b)]
    /\ UNCHANGED <<clockVars, registry, agentVars>>

\* the client reads the response
Receive ==
    /\ served.op # "none"
    /\ served' = Idle
    /\ UNCHANGED <<clockVars, registry, agentVars>>

NextServer == Tick \/ SetEnv \/ ServeList \/ ServeCall \/ Receive

SpecServer == InitServer /\ [][NextServer]_vars

----------------------------------------------------------------------------
(* Conversation data of the agent: parts and turns *)

NoResponse == TextOf(Ok(NoValue))

TextPart(t) ==
    [type |-> "text", name |-> "", a |-> 0, b |-> 0, text |-> t,
     response |-> NoResponse]
CallPart(n, a, b) ==
    [type |-> "function_call", name |-> n, a |-> a, b |-> b, text |-> "",
     response |-> NoResponse]
\* FunctionResponse(name=call.name, response={"result": value})
ResponsePart(n, value) ==
    [type |-> "function_response", name |-> n, a |-> 0, b |-> 0, text |-> "",
     response |-> value]

Content(role, parts) == [role |-> role, parts |-> parts]

IsFunctionCall(part) == part.type = "function_call"

\* [part.function_call for part in parts if part.function_call]
FunctionCalls(parts) == SelectSeq(parts, IsFunctionCall)

\* one FunctionDeclaration per listed tool, in the order listed
Declaration(t) == [name |-> t, properties |-> {"a", "b"}, required |-> <<"a", "b">>]
get_mcp_tools(tools) == [i \in 1 .. Len(tools) |-> Declaration(tools[i])]

----------------------------------------------------------------------------
(* The model stub: what generate_content may return *)

\* the calls the stub issues: a domain error, the gated tool, no such tool
AgentCalls ==
    {CallPart("bodma", 0, 5), CallPart("prodma", 2, 3), CallPart("nosuch", 2, 3)}

Batches(k) == UNION {[1 .. n -> AgentCalls] : n \in 1 .. k}

\* a final text, a batch of at most k calls, or a text part followed by one call
Responses(k) ==
    {<<TextPart("answer")>>}
        \cup Batches(k)
        \cup {<<TextPart("note"), call>> : call \in {c \in AgentCalls : k > 0}}

----------------------------------------------------------------------------
(* Spec: one invocation of agent(prompt) *)

Init ==
    /\ fake = Unset
    /\ wall \in Hours
    /\ registry = Registry
    /\ served = Idle
    /\ AgentIdle

\* variant: the exception is caught and reported as the answer
PropagateSwallowed(e) ==
    /\ raised' = e
    /\ pc' = "done"
    /\ final' = e
    /\ UNCHANGED <<declarations, contents, tool_calls, result_parts>>
\* no try/except in agent(): an exception leaves the function at once
Propagate(e) ==
    /\ raised' = e
    /\ pc' = "failed"
    /\ UNCHANGED <<declarations, contents, tool_calls, result_parts, final>>

\* variant: the loop is left after the first model turn, calls or not
AfterModelTurnAlwaysBreak(parts, calls) ==
    /\ pc' = "done"
    /\ final' = parts[1].text
    /\ UNCHANGED result_parts
\* variant: a max-iteration guard, the loop is left at the second model turn
AfterModelTurnGuarded(parts, calls) ==
    IF calls = <<>> \/ nModelCalls >= 1
    THEN /\ pc' = "done"
         /\ final' = parts[1].text
         /\ UNCHANGED result_parts
    ELSE /\ pc' = "dispatch"
         /\ result_parts' = <<>>
         /\ UNCHANGED final
\* the step after a model turn: leave the loop, or start collecting results
AfterModelTurn(parts, calls) ==
    IF calls = <<>>
    THEN /\ pc' = "done"
         /\ final' = parts[1].text
         /\ UNCHANGED result_parts
    ELSE /\ pc' = "dispatch"
         /\ result_parts' = <<>>
         /\ UNCHANGED final

\* variant: the result turn is appended after the first result of a batch
AfterToolResultEager(parts) ==
    /\ contents' = Append(contents, Content("user", parts))
    /\ pc' = "model"
\* variant: one result turn is appended per call
AfterToolResultPerCall(parts) ==
    /\ contents' = Append(contents, Content("user", <<parts[Len(parts)]>>))
    /\ pc' = IF Len(parts) = Len(tool_calls) THEN "model" ELSE "dispatch"
\* variant: the result turn overwrites the model turn it answers
AfterToolResultReplacing(parts) ==
    IF Len(parts) = Len(tool_calls)
    THEN /\ contents' = [contents EXCEPT ![Len(contents)] = Content("user", parts)]
         /\ pc' = "model"
    ELSE /\ UNCHANGED contents
         /\ pc' = "dispatch"
\* the step after a tool result: next call, or append the result turn
AfterToolResult(parts) ==
    IF Len(parts) = Len(tool_calls)
    THEN /\ contents' = Append(contents, Content("user", parts))
         /\ pc' = "model"
    ELSE /\ UNCHANGED contents
         /\ pc' = "dispatch"

\* variant: an error result of the server is raised in the client
HandleResultRaising(call, outcome) ==
    IF outcome.ok
    THEN /\ result_parts' = Append(result_parts, ResponsePart(call.name, TextOf(outcome)))
         /\ AfterToolResult(result_parts')
         /\ UNCHANGED raised
    ELSE Propagate("ToolError")
\* variant: after a failed call the later calls of the batch get its error
HandleResultSticky(call, outcome) ==
    /\ result_parts' = Append(result_parts,
          ResponsePart(call.name,
              IF result_parts # <<>> /\ result_parts[Len(result_parts)].response.isError
              THEN result_parts[Len(result_parts)].response
              ELSE TextOf(outcome)))
    /\ AfterToolResult(result_parts')
    /\ UNCHANGED raised
\* variant: a call of a tool that is not in the catalog held is not forwarded
HandleResultCatalogChecked(call, outcome) ==
    /\ result_parts' = Append(result_parts,
          ResponsePart(call.name,
              IF \E i \in 1 .. Len(declarations) : declarations[i].name = call.name
              THEN TextOf(outcome)
              ELSE TextOf(UnknownToolError)))
    /\ AfterToolResult(result_parts')
    /\ UNCHANGED raised
\* the result of call_tool, error or not, becomes a function response
HandleResult(call, outcome) ==
    /\ result_parts' = Append(result_parts, ResponsePart(call.name, TextOf(outcome)))
    /\ AfterToolResult(result_parts')
    /\ UNCHANGED raised

Initialize ==
    /\ pc = "connect"
    /\ pc' = "list"
    /\ UNCHANGED <<clockVars, registry, served, declarations, contents, tool_calls,
                   result_parts, final, raised, nModelCalls, nToolCalls>>

InitializeFails ==
    /\ pc = "connect"
    /\ Propagate("TransportFailure")
    /\ UNCHANGED <<clockVars, registry, served, nModelCalls, nToolCalls>>

GetMcpTools ==
    /\ pc = "list"
    /\ declarations' = get_mcp_tools(_dynamic_list_tools)
    /\ contents' = <<Content("user", <<TextPart("prompt")>>)>>
    /\ pc' = "model"
    /\ UNCHANGED <<clockVars, registry, served, tool_calls, result_parts, final, raised,
                   nModelCalls, nToolCalls>>

GetMcpToolsFails ==
    /\ pc = "list"
    /\ Propagate("TransportFailure")
    /\ UNCHANGED <<clockVars, registry, served, nModelCalls, nToolCalls>>

GenerateContent ==
    /\ pc = "model"
    /\ \E parts \in Responses(MaxCalls - nToolCalls) :
          /\ contents' = Append(contents, Content("model", parts))
          /\ tool_calls' = FunctionCalls(parts)
          /\ AfterModelTurn(parts, tool_calls')
    /\ nModelCalls' = nModelCalls + 1
    /\ UNCHANGED <<clockVars, registry, served, declarations, raised, nToolCalls>>

GenerateContentFails ==
    /\ pc = "model"
    /\ Propagate("ModelCallFailure")
    /\ nModelCalls' = nModelCalls + 1
    /\ UNCHANGED <<clockVars, registry, served, nToolCalls>>

CallTool ==
    /\ pc = "dispatch"
    /\ LET call == tool_calls[Len(result_parts) + 1]
       IN  HandleResult(call, call_tool(call.name, call.a, call.b))
    /\ nToolCalls' = nToolCalls + 1
    /\ UNCHANGED <<clockVars, registry, served, declarations, tool_calls, final, nModelCalls>>

CallToolFails ==
    /\ pc = "dispatch"
    /\ Propagate("TransportFailure")
    /\ nToolCalls' = nToolCalls + 1
    /\ UNCHANGED <<clockVars, registry, served, nModelCalls>>

AgentStep ==
    \/ Initialize \/ InitializeFails
    \/ GetMcpTools \/ GetMcpToolsFails
    \/ GenerateContent \/ GenerateContentFails
    \/ CallTool \/ CallToolFails

Next == Tick \/ AgentStep

Spec == Init /\ [][Next]_vars

\* every model call and tool call returns, and the steps of agent() are taken
LiveSpec == Spec /\ WF_vars(AgentStep)

----------------------------------------------------------------------------
(* Properties of the server, checked under SpecServer *)

InSeq(x, seq) == \E i \in 1 .. Len(seq) : seq[i] = x

\* a step in which the server answers a tools/list request
ListingStep == served.op = "none" /\ served'.op = "tools/list"

\* C1: every tools/list answer contains a registered tool exactly when the
\* tool's availability predicate holds at the moment of that listing: prodma
\* iff the current hour is inside the window, bodma and codma always;
\* whatever listings and clock changes came before.
C1_ListingMatchesAvailability ==
    [][ListingStep =>
          /\ InSeq("prodma", served'.tools) <=> prodma_available
          /\ InSeq("bodma", served'.tools)
          /\ InSeq("codma", served'.tools)
          /\ \A i \in 1 .. Len(served'.tools) : served'.tools[i] \in Registered]_vars

\* a listing taken at hour 22, the first hour after the window: prodma hidden
C1_Witness ==
    /\ served.op = "tools/list"
    /\ current_hour = 22
    /\ served.tools = <<"bodma", "codma">>

\* the hour an override names, when one is configured; the wall clock otherwise
OverrideConfigured == fake.set /\ fake.val # <<>>
HourInForce ==
    IF OverrideConfigured
    THEN CHOOSE h \in Hours : DigitsOf(h) = fake.val
    ELSE wall

\* C3: prodma_available() is true iff 10 <= h < 22, h being the override hour
\* when an override is configured (an override of 0 too) and the wall-clock
\* hour otherwise.
C3_WindowHalfOpen ==
    prodma_available <=> (10 <= HourInForce /\ HourInForce < 22)

\* an override of 0 is in force although the wall clock is inside the window
C3_Witness ==
    /\ fake = EnvOf(<<0>>)
    /\ wall = 11
    /\ ~prodma_available

\* a tools/call answer that is a domain error of a tool body
DomainFailure ==
    /\ served.op = "tools/call"
    /\ ~served.outcome.ok
    /\ served.outcome.msg \in {BodmaDomainError.msg, CodmaDomainError.msg}

\* C7: a failure of a tool body on domain-invalid input has an error kind
\* different from the error kind of a failure outside the availability window.
C7_DistinctErrorKinds ==
    DomainFailure => served.outcome.kind # UnavailableError.kind

\* a step in which the server answers a tools/call request
CallStep == served.op = "none" /\ served'.op = "tools/call"

\* a ^ b = 0 over the integers: only 0 to a positive power
PowIsZero(a, b) == a = 0 /\ b > 0

\* C11: bodma(a, b) fails with the domain error iff a * b = 0, codma(a, b)
\* fails with the domain error iff a ^ b = 0, and on every other input each
\* returns a value and fails in no other way.
C11_DomainErrorsExact ==
    served.op = "tools/call" =>
        /\ served.name = "bodma" =>
              IF served.a * served.b = 0
              THEN served.outcome = BodmaDomainError
              ELSE served.outcome.ok /\ served.outcome.value # NoValue
        /\ served.name = "codma" =>
              IF PowIsZero(served.a, served.b)
              THEN served.outcome = CodmaDomainError
              ELSE served.outcome.ok /\ served.outcome.value # NoValue

\* C12: at one clock value the listing and the call-time guard agree: a
\* listing shows prodma iff a call of prodma at that moment would pass the
\* guard, and a call of prodma passes the guard iff a listing taken at that
\* moment would show prodma.
C12_FilterAndGuardAgree ==
    [][/\ ListingStep =>
            (InSeq("prodma", served'.tools) <=>
                \A a \in Nums, b \in Nums : prodma(a, b) # UnavailableError)
       /\ (CallStep /\ served'.name = "prodma") =>
            ((served'.outcome # UnavailableError) <=>
                InSeq("prodma", _dynamic_list_tools))]_vars

\* prodma called and let through at hour 21, the last hour of the window
C12_Witness ==
    /\ served.op = "tools/call"
    /\ served.name = "prodma"
    /\ served.outcome.ok
    /\ current_hour = 21
    /\ InSeq("prodma", _dynamic_list_tools)

\* is seq a subsequence of Registry, in Registry's order
InRegistrationOrder(seq) ==
    \E keep \in SUBSET (1 .. Len(Registry)) :
        seq = SelectSeq(Registry, LAMBDA t : \E i \in keep : Registry[i] = t)

\* C16: the registry holds bodma, codma, prodma in registration order after
\* any listings, calls and clock changes; every listing keeps registration
\* order; inside the window prodma is listed and callable again, whatever
\* was listed before.
C16_RegistryImmutable ==
    /\ [](registry = <<"bodma", "codma", "prodma">>)
    /\ [][ListingStep =>
            /\ InRegistrationOrder(served'.tools)
            /\ prodma_available => served'.tools = <<"bodma", "codma", "prodma">>]_vars
    /\ [][(CallStep /\ served'.name = "prodma" /\ prodma_available) =>
            served'.outcome \notin {UnknownToolError, UnavailableError}]_vars

\* prodma listed at hour 10, the hour the clock re-enters the window
C16_Witness ==
    /\ served.op = "tools/list"
    /\ current_hour = 10
    /\ served.tools = <<"bodma", "codma", "prodma">>
    /\ registry = Registry

\* 0 raised to a negative power: where a ^ b or b ^ a is undefined
PowUndefined(a, b) == (a = 0 /\ b < 0) \/ (b = 0 /\ a < 0)

----------------------------------------------------------------------------
(* Properties of the agent loop, checked under Spec *)

Last(seq) == seq[Len(seq)]

IsModelTurn(turn) == turn.role = "model"
CallsOf(turn) == SelectSeq(turn.parts, IsFunctionCall)
IsCallingTurn(turn) == IsModelTurn(turn) /\ CallsOf(turn) # <<>>
IsResultTurn(turn) ==
    /\ turn.role = "user"
    /\ turn.parts # <<>>
    /\ \A j \in 1 .. Len(turn.parts) : turn.parts[j].type = "function_response"

\* turn i + 1 answers the calls of turn i: as many results, the same names
AnsweredAt(i) ==
    /\ i < Len(contents)
    /\ IsResultTurn(contents[i + 1])
    /\ Len(contents[i + 1].parts) = Len(CallsOf(contents[i]))
    /\ \A j \in 1 .. Len(CallsOf(contents[i])) :
          contents[i + 1].parts[j].name = CallsOf(contents[i])[j].name

CallingTurns == {i \in 1 .. Len(contents) : IsCallingTurn(contents[i])}
ResultTurns == {i \in 1 .. Len(contents) : IsResultTurn(contents[i])}

\* a step in which session.call_tool is called and the transport delivers
ToolCallStep ==
    /\ pc = "dispatch"
    /\ nToolCalls' = nToolCalls + 1
    /\ raised' # "TransportFailure"
CurrentCall == tool_calls[Len(result_parts) + 1]
IsCatalogued(name) == \E i \in 1 .. Len(declarations) : declarations[i].name = name

\* C2: a call of prodma made while the availability predicate is false gets
\* the Unavailable error and no value, also when the catalog the agent holds
\* was fetched while prodma was visible.
C2_StaleCallRejected ==
    [][(ToolCallStep /\ CurrentCall.name = "prodma" /\ ~prodma_available) =>
          /\ Len(result_parts') = Len(result_parts) + 1
          /\ Last(result_parts').name = "prodma"
          /\ Last(result_parts').response =
                [isError |-> TRUE, text |-> UnavailableError.msg, value |-> NoValue]]_vars

\* prodma is in the catalog held, and its call has just been refused
C2_Witness ==
    /\ IsCatalogued("prodma")
    /\ ~prodma_available
    /\ result_parts # <<>>
    /\ Last(result_parts).name = "prodma"
    /\ Last(result_parts).response.text = UnavailableError.msg

\* C4: whenever the loop is about to call the model, every earlier model turn
\* with k >= 1 calls is immediately followed by one result turn with exactly
\* k results, the i-th named as the i-th call.
C4_BatchesAnsweredBeforeModelCall ==
    pc = "model" => \A i \in CallingTurns : AnsweredAt(i)

\* about to call the model again after two answered batches
C4_Witness ==
    /\ pc = "model"
    /\ Cardinality(CallingTurns) = 2
    /\ Len(contents) = 5

\* C5: a run that ends after m tool-calling model turns holds exactly m result
\* turns, each right after its batch, before the final turn and with one
\* matching result per call, and has made m + 1 model calls.
C5_OneResultTurnPerBatch ==
    pc = "done" =>
        /\ Cardinality(ResultTurns) = Cardinality(CallingTurns)
        /\ nModelCalls = Cardinality(CallingTurns) + 1
        /\ \A i \in CallingTurns : AnsweredAt(i) /\ i + 1 < Len(contents)

\* a batch of two calls, then the final text: four turns, one result turn of two
C5_Witness ==
    /\ pc = "done"
    /\ Len(contents) = 4
    /\ Len(CallsOf(contents[2])) = 2
    /\ Len(contents[3].parts) = 2
    /\ nModelCalls = 2

\* C6: a tool call that fails on the server (Unavailable, InvalidArgument,
\* NotFound, or any other error) does not abort the loop: the error text is
\* the call's result, the next call of the batch stays to be dispatched, and
\* after the last call the result turn is appended and the model is awaited.
C6_ToolErrorsBecomeResults ==
    [][(ToolCallStep /\ ~call_tool(CurrentCall.name, CurrentCall.a, CurrentCall.b).ok) =>
          /\ raised' = ""
          /\ result_parts' = Append(result_parts,
                ResponsePart(CurrentCall.name,
                    [isError |-> TRUE,
                     text |-> call_tool(CurrentCall.name, CurrentCall.a, CurrentCall.b).msg,
                     value |-> NoValue]))
          /\ IF Len(result_parts') < Len(tool_calls)
             THEN pc' = "dispatch" /\ contents' = contents
             ELSE pc' = "model" /\ contents' = Append(contents, Content("user", result_parts'))]_vars

\* a batch whose first call failed was dispatched to its end and answered
C6_Witness ==
    /\ pc = "model"
    /\ IsResultTurn(Last(contents))
    /\ Len(Last(contents).parts) = 2
    /\ Last(contents).parts[1].response.text = UnavailableError.msg
    /\ Last(contents).parts[2].response.text = BodmaDomainError.msg

\* a step in which generate_content is called
ModelCallStep == pc = "model" /\ nModelCalls' = nModelCalls + 1

\* C9: the catalog given to the model at every model call is the listing of
\* that moment.
C9_CatalogFreshAtEveryModelCall ==
    [][ModelCallStep => declarations = get_mcp_tools(_dynamic_list_tools)]_vars

\* C10: once a transport or model-call failure is raised the invocation is
\* over: no final answer exists, and no model call, tool call or other step
\* of the agent follows.
C10_FailureTerminates ==
    /\ [](raised # "" => pc = "failed" /\ final = "")
    /\ [][raised # "" => UNCHANGED agentVars]_vars

\* a transport failure in the middle of a batch, after its first result
C10_Witness ==
    /\ raised = "TransportFailure"
    /\ pc = "failed"
    /\ Len(tool_calls) = 2
    /\ Len(result_parts) = 1
    /\ final = ""

\* every model turn so far holds at least one tool call
AllTurnsCalling ==
    \A i \in 1 .. Len(contents) : IsModelTurn(contents[i]) => IsCallingTurn(contents[i])

C14_SequentialDispatchAtomicAppend ==
    /\ [](\A i \in ResultTurns :
            i > 1 /\ IsCallingTurn(contents[i - 1]) /\ AnsweredAt(i - 1))
    /\ [](pc = "dispatch" =>
            /\ IsCallingTurn(Last(contents))
            /\ tool_calls = CallsOf(Last(contents))
            /\ Len(result_parts) < Len(tool_calls)
            /\ \A j \in 1 .. Len(result_parts) :
                  result_parts[j].name = tool_calls[j].name)
    /\ [][(ToolCallStep /\ raised' = "") =>
            /\ Len(result_parts') = Len(result_parts) + 1
            /\ SubSeq(result_parts', 1, Len(result_parts)) = result_parts
            /\ Last(result_parts').name = CurrentCall.name
            /\ IF Len(result_parts') = Len(tool_calls)
               THEN contents' = Append(contents, Content("user", result_parts'))
               ELSE contents' = contents]_vars

\* first call of a batch of two answered, nothing appended yet
C14_Witness ==
    /\ pc = "dispatch"
    /\ Len(tool_calls) = 2
    /\ Len(result_parts) = 1
    /\ tool_calls[1].name # tool_calls[2].name
    /\ result_parts[1].name = tool_calls[1].name
    /\ IsCallingTurn(Last(contents))

\* C15: a tool call changes nothing on the server, and its result is the
\* tool's outcome for its own name and arguments at the hour of the call: a
\* call leaves unchanged what every call of the batch would return, so with
\* the hour fixed each call gets the same result in any dispatch order.
C15_CallsIndependent ==
    [][(ToolCallStep /\ raised' = "") =>
          /\ Last(result_parts').response =
                TextOf(call_tool(CurrentCall.name, CurrentCall.a, CurrentCall.b))
          /\ UNCHANGED <<fake, wall, registry, served>>
          /\ \A j \in 1 .. Len(tool_calls) :
                call_tool(tool_calls[j].name, tool_calls[j].a, tool_calls[j].b)' =
                call_tool(tool_calls[j].name, tool_calls[j].a, tool_calls[j].b)]_vars

\* a batch answered with an error first and a value second
C15_Witness ==
    /\ pc = "model"
    /\ IsResultTurn(Last(contents))
    /\ Len(Last(contents).parts) = 2
    /\ Last(contents).parts[1].response.isError
    /\ ~Last(contents).parts[2].response.isError

\* C18: every step leaves the conversation as it is or appends one turn to it.
C18_ConversationAppendOnly ==
    [][\/ contents' = contents
       \/ /\ Len(contents') = Len(contents) + 1
          /\ SubSeq(contents', 1, Len(contents)) = contents]_vars

\* the longest conversation of the model, ended by the final text
C18_Witness ==
    /\ pc = "done"
    /\ Len(contents) = 2 * MaxCalls + 2

\* C19: the conversation is the user prompt, then pairs of a calling model
\* turn and its result turn, then at most one more model turn; roles
\* alternate from user; a model turn without calls is the last turn; and when
\* the model is about to be called, the model calls made equal the result
\* turns. (Before the history is created there is no conversation.)
C19_ConversationShape ==
    /\ contents # <<>> =>
          /\ contents[1] = Content("user", <<TextPart("prompt")>>)
          /\ \A i \in 1 .. Len(contents) :
                /\ contents[i].role = IF i % 2 = 1 THEN "user" ELSE "model"
                /\ (i % 2 = 1 /\ i > 1) =>
                      IsResultTurn(contents[i]) /\ AnsweredAt(i - 1)
                /\ (i % 2 = 0 /\ i < Len(contents)) => IsCallingTurn(contents[i])
    /\ pc = "model" => nModelCalls = Cardinality(ResultTurns)

\* a second calling turn, made of a text part and a call, being dispatched
C19_Witness ==
    /\ pc = "dispatch"
    /\ Len(contents) = 4
    /\ contents[4].parts[1].type = "text"

\* the result of each call the stub issues, from its name, arguments and hour
ExpectedResult(call, h) ==
    CASE call = CallPart("prodma", 2, 3) ->
           IF 10 <= h /\ h < 22
           THEN [isError |-> FALSE, text |-> "", value |-> <<72, 1>>]
           ELSE [isError |-> TRUE, text |-> UnavailableError.msg, value |-> NoValue]
      [] call = CallPart("bodma", 0, 5) ->
           [isError |-> TRUE, text |-> BodmaDomainError.msg, value |-> NoValue]
      [] call = CallPart("nosuch", 2, 3) ->
           [isError |-> TRUE, text |-> UnknownToolError.msg, value |-> NoValue]
      [] OTHER -> NoResponse

\* C20: every call the model issues is forwarded, in the catalog held or not,
\* and its result is a function of its name, its arguments and the hour of
\* the call alone: prodma(2, 3) called inside the window returns 72 also
\* when the catalog fetched at the start hides prodma.
C20_OutcomeFromCallTimeOnly ==
    [][(ToolCallStep /\ raised' = "") =>
          Last(result_parts').response = ExpectedResult(CurrentCall, HourInForce)]_vars

\* prodma is not in the catalog held, and its call has just returned 72
C20_Witness ==
    /\ declarations # <<>>
    /\ ~IsCatalogued("prodma")
    /\ result_parts # <<>>
    /\ Last(result_parts).name = "prodma"
    /\ Last(result_parts).response.value = <<72, 1>>

----------------------------------------------------------------------------
(* Termination of the agent loop, checked under LiveSpec *)

\* C8: the loop is in DONE exactly when the most recent model turn holds no
\* tool call; in DONE the final answer is the text of that turn and nothing
\* more happens; and, no call failing, DONE is eventually reached.
C8_DoneIffNoToolCalls ==
    /\ [](pc = "done" <=>
            (contents # <<>> /\ IsModelTurn(Last(contents))
                /\ CallsOf(Last(contents)) = <<>>))
    /\ [](pc = "done" => final = Last(contents).parts[1].text /\ final # "")
    /\ [][pc = "done" => UNCHANGED agentVars]_vars
    /\ <>(pc = "done" \/ raised # "")

\* DONE after two rounds of tool calls
C8_Witness ==
    /\ pc = "done"
    /\ nModelCalls = 3
    /\ final = "answer"

====
